---- MODULE Spec2Model ----
(***************************************************************************)
(* Model of kibana-gitea-bot (src/main.py): a poller that searches Kibana  *)
(* Security cases by tag, creates a Gitea issue per case and writes the    *)
(* outcome back to the case.                                               *)
(*                                                                         *)
(* Remote calls are atomic: a call that fails leaves the remote system     *)
(* unchanged, a call that succeeds applies its effect.  The outcome of     *)
(* every call is chosen by the environment.                                *)
(***************************************************************************)
EXTENDS Integers, Sequences, FiniteSets, TLC

VARIABLES
    config,            \* config.yml: [search_tag, success_tag, label_ids, missing]
    gitea_labels,      \* Gitea server: the labels of the organisation
    pc,                \* position of the script: see PcValues
    exit_code,         \* process exit status, -1 while running
    exit_reason,       \* "", "probe", "exception", "interrupt"
    kibana_connected,  \* result of KibanaClient.test_connection
    gitea_connected,   \* result of GiteaClient.test_connection
    kibana,            \* Kibana server: case id -> [tags, version, status, severity]
    cases_to_process,  \* process_cases: the list returned by the search
    idx,               \* process_cases: position of the for loop (1-based)
    issue_url,         \* process_cases: url returned by create_issue
    issues,            \* Gitea server: issues created, in order
    comments,          \* Kibana server: comments posted, in order
    calls,             \* remote calls of the current cycle, in order
    cycle,             \* number of the current poll cycle
    entered_loop,      \* the while loop of __main__ was entered
    retagged,          \* cases whose search tag was re-added externally after a write-back
    acked,             \* case id -> cycle of its last successful write-back, 0 if none
    prev_create_failed,\* cases whose create_issue failed in the previous cycle
    cur_create_failed, \* cases whose create_issue failed in this cycle
    external           \* number of external edits so far

\* what no step of the script changes
static_vars == <<config, gitea_labels>>

vars == <<static_vars, pc, exit_code, exit_reason, kibana_connected, gitea_connected,
          kibana, cases_to_process, idx, issue_url, issues, comments, calls,
          cycle, entered_loop, retagged, acked, prev_create_failed,
          cur_create_failed, external>>

----------------------------------------------------------------------------
(* Bounds *)

MaxCycles == 2     \* poll cycles explored
MaxExternal == 1   \* external edits of cases explored
MaxTags == 3       \* length of the tag lists drawn for update_case_tags_and_status

----------------------------------------------------------------------------
(* Strings: python's str.lower, str.upper, str.title on the tags used *)

Tags == {"Security", "security", "SECURITY", "sECURITY",
         "forwarded", "Forwarded", "network", "Network", "NETWORK",
         "critical", "Critical", "unmatched"}

Lower(t) ==
    CASE t \in {"Security", "security", "SECURITY", "sECURITY"} -> "security"
      [] t \in {"forwarded", "Forwarded", "FORWARDED"} -> "forwarded"
      [] t \in {"network", "Network", "NETWORK"} -> "network"
      [] t \in {"critical", "Critical", "CRITICAL"} -> "critical"
      [] OTHER -> t

Upper(t) ==
    CASE Lower(t) = "security" -> "SECURITY"
      [] Lower(t) = "forwarded" -> "FORWARDED"
      [] Lower(t) = "network" -> "NETWORK"
      [] Lower(t) = "critical" -> "CRITICAL"
      [] OTHER -> t

Title(t) ==
    CASE Lower(t) = "security" -> "Security"
      [] Lower(t) = "forwarded" -> "Forwarded"
      [] Lower(t) = "network" -> "Network"
      [] Lower(t) = "critical" -> "Critical"
      [] OTHER -> t

Range(s) == {s[i] : i \in 1..Len(s)}

RECURSIVE SelectSeqBy(_, _)
\* [x for x in s if Lower(x) # drop]
SelectSeqBy(s, drop) ==
    IF s = <<>> THEN <<>>
    ELSE IF Lower(Head(s)) # drop
         THEN <<Head(s)>> \o SelectSeqBy(Tail(s), drop)
         ELSE SelectSeqBy(Tail(s), drop)

----------------------------------------------------------------------------
(* Configuration (config.yml) *)

search_tag == config.search_tag     \* config["kibana"]["search_tag"]
success_tag == config.success_tag   \* config["kibana"]["success_tag"]

\* the configuration the poller is run with; missing names a required key
\* that config.yml lacks ("file": the file is unreadable or malformed)
Configs == {[search_tag |-> "Security", success_tag |-> "forwarded",
             label_ids |-> [low |-> 10, critical |-> 2], missing |-> "none"]}
NoSeverity == "<absent>"
priority_labels == config.label_ids   \* config["gitea"]["label_ids"]["severity"]

\* the places where the script reads a key of the configuration first
MissingKeys == {"file", "kibana.url", "gitea.url", "kibana.search_interval",
                "kibana.search_tag", "gitea.label_ids", "label_ids.low"}

CaseIds == {"c1", "c2"}
CaseOrder == <<"c1", "c2">>   \* order in which the search returns cases

----------------------------------------------------------------------------
(* KibanaClient *)

\* test_connection: the result for each response to GET /api/cases/<id>
ProbeResponses == {"200", "404", "401", "403", "500", "transport"}

KibanaTestConnectionOnly200(resp) == resp = "200"

\* test_connection: raise_for_status passes, or the HTTPError is a 404
KibanaTestConnection(resp) ==
    CASE resp = "200" -> TRUE
      [] resp = "404" -> TRUE
      [] OTHER -> FALSE

QueryTagsAsSupplied(tag) == {tag}

\* get_cases_by_tag: the "tags" query parameter
QueryTags(tag) == {tag, Lower(tag), Title(tag), Upper(tag)}

\* a case as the API returns it
Snapshot(id) ==
    [id |-> id, tags |-> kibana[id].tags, version |-> kibana[id].version,
     severity |-> kibana[id].severity]

RECURSIVE FindCases(_, _)
\* the response of GET /api/cases/_find: the cases carrying one of the tags
FindCases(order, qtags) ==
    IF order = <<>> THEN <<>>
    ELSE IF Range(kibana[Head(order)].tags) \cap qtags # {}
         THEN <<Snapshot(Head(order))>> \o FindCases(Tail(order), qtags)
         ELSE FindCases(Tail(order), qtags)

GetCasesByTagIgnoringFailure(tag, ok) == FindCases(CaseOrder, QueryTags(tag))

\* get_cases_by_tag: the list returned, [] when the request fails
GetCasesByTag(tag, ok) ==
    IF ok THEN FindCases(CaseOrder, QueryTags(tag)) ELSE <<>>

UpdatedTagsCaseSensitive(original_tags, stag, new_tag) ==
    LET kept == SelectSeq(original_tags, LAMBDA t : t # stag)
    IN  IF \E i \in 1..Len(kept) : kept[i] = new_tag
        THEN kept ELSE Append(kept, new_tag)

UpdatedTagsNoAppend(original_tags, stag, new_tag) ==
    SelectSeqBy(original_tags, Lower(stag))

UpdatedTagsNewFirst(original_tags, stag, new_tag) ==
    <<new_tag>> \o SelectSeqBy(original_tags, Lower(stag))

\* update_case_tags_and_status: the tag list of the payload
UpdatedTags(original_tags, stag, new_tag) ==
    LET updated_tags == SelectSeqBy(original_tags, Lower(stag))
    IN  IF \E i \in 1..Len(updated_tags) :
               Lower(updated_tags[i]) = Lower(new_tag)
        THEN updated_tags
        ELSE Append(updated_tags, new_tag)

UpdatePayloadCurrentVersion(case, stag, new_tag) ==
    [id |-> case.id, version |-> kibana[case.id].version,
     tags |-> UpdatedTags(case.tags, stag, new_tag), status |-> "in-progress"]

\* update_case_tags_and_status: the payload of the PATCH request
UpdatePayload(case, stag, new_tag) ==
    [id |-> case.id, version |-> case.version,
     tags |-> UpdatedTags(case.tags, stag, new_tag), status |-> "in-progress"]

\* the value process_cases binds to fresh_case_data: the bound method
\* kibana_client.get_cases_by_tag itself, never called
BoundMethod == [kind |-> "method", name |-> "get_cases_by_tag"]

\* bool(x) of python for the values fresh_case_data can hold
Truthy(x) == x # <<>>

\* whether x.get(...) is defined: dicts have it, a bound method does not
HasGet(x) == "id" \in DOMAIN x

----------------------------------------------------------------------------
(* GiteaClient *)

\* test_connection: only a response that raise_for_status lets through
GiteaTestConnection(resp) == resp = "200"

\* the organisation's labels as GET /orgs/<org>/labels returns them
OrgLabels == <<[id |-> 1, name |-> "Network"], [id |-> 2, name |-> "critical"]>>

GetOrgLabelsIgnoringFailure(ok) == gitea_labels

\* get_org_labels: the list returned, [] when the request fails
GetOrgLabels(ok) == IF ok THEN gitea_labels ELSE <<>>

LabelIdsCaseSensitive(case, org_labels, prio_labels) ==
    LET from_tags == {org_labels[i].id :
                         i \in {j \in 1..Len(org_labels) :
                                   org_labels[j].name \in Range(case.tags)}}
        priority == IF case.severity = NoSeverity THEN "low" ELSE Lower(case.severity)
    IN  from_tags \cup {IF priority \in DOMAIN prio_labels
                        THEN prio_labels[priority] ELSE prio_labels["low"]}

\* create_issue: the label ids sent with the issue
LabelIds(case, org_labels, prio_labels) ==
    LET names == {Lower(org_labels[i].name) : i \in 1..Len(org_labels)}
        label_map == [n \in names |->
            \* a later label of the same lowercase name overwrites an earlier one
            LET last == CHOOSE i \in 1..Len(org_labels) :
                          /\ Lower(org_labels[i].name) = n
                          /\ \A j \in 1..Len(org_labels) :
                               Lower(org_labels[j].name) = n => j <= i
            IN  org_labels[last].id]
        from_tags == {label_map[Lower(case.tags[i])] :
                         i \in {j \in 1..Len(case.tags) : Lower(case.tags[j]) \in names}}
        priority == IF case.severity = NoSeverity THEN "low" ELSE Lower(case.severity)
        priority_label_id == IF priority \in DOMAIN prio_labels
                             THEN prio_labels[priority] ELSE prio_labels["low"]
    IN  from_tags \cup {priority_label_id}

----------------------------------------------------------------------------
(* State *)

\* one remote call, as it is recorded in calls
Call(op, id, ok, url, tags, version) ==
    [op |-> op, case |-> id, ok |-> ok, url |-> url, tags |-> tags,
     version |-> version, status |-> ""]

PcValues == {"load", "probe_kibana", "probe_gitea", "check", "search",
             "create", "update", "retry", "comment", "sleep", "ended"}

\* the cases the Kibana server may hold when the script starts
InitCases ==
    { [tags |-> <<"Security">>, severity |-> "critical"],
      [tags |-> <<"security", "network">>, severity |-> NoSeverity],
      [tags |-> <<"SECURITY", "forwarded">>, severity |-> "low"],
      [tags |-> <<"network">>, severity |-> "low"] }

\* the state when the script starts, but for the configuration
InitState ==
    /\ gitea_labels = OrgLabels
    /\ pc = "load"
    /\ exit_code = -1
    /\ exit_reason = ""
    /\ kibana_connected = FALSE
    /\ gitea_connected = FALSE
    /\ kibana \in [CaseIds -> {[tags |-> c.tags, severity |-> c.severity,
                                version |-> 1, status |-> "open"] : c \in InitCases}]
    /\ cases_to_process = <<>>
    /\ idx = 0
    /\ issue_url = 0
    /\ issues = <<>>
    /\ comments = <<>>
    /\ calls = <<>>
    /\ cycle = 0
    /\ entered_loop = FALSE
    /\ retagged = {}
    /\ acked = [id \in CaseIds |-> 0]
    /\ prev_create_failed = {}
    /\ cur_create_failed = {}
    /\ external = 0

Init ==
    /\ config \in Configs
    /\ InitState

startup_vars == <<static_vars, kibana, cases_to_process, idx, issue_url, issues, comments,
                  retagged, acked, prev_create_failed, cur_create_failed,
                  external>>

----------------------------------------------------------------------------
(* __main__ *)

\* an exception reaching "except Exception": logged, and the script runs off
\* its end, which is exit status 0
Raise ==
    /\ pc' = "ended"
    /\ exit_code' = 0
    /\ exit_reason' = "exception"

\* load_config and logging.basicConfig
LoadConfig ==
    /\ pc = "load"
    /\ IF config.missing # "file"
       THEN /\ pc' = "probe_kibana"
            /\ UNCHANGED <<exit_code, exit_reason>>
       ELSE Raise   \* FileNotFoundError, YAMLError or KeyError
    /\ UNCHANGED <<kibana_connected, gitea_connected, cycle, entered_loop>>
    /\ UNCHANGED <<startup_vars, calls>>

ProbeKibana ==
    /\ pc = "probe_kibana"
    /\ IF config.missing = "kibana.url"
       THEN \* KeyError while the arguments of KibanaClient are read
            /\ Raise
            /\ UNCHANGED <<kibana_connected, calls>>
       ELSE /\ \E resp \in ProbeResponses :
                 /\ kibana_connected' = KibanaTestConnection(resp)
                 /\ calls' = Append(calls,
                        [Call("probe_kibana", "", kibana_connected', 0, <<>>, 0)
                            EXCEPT !.status = resp])
            /\ pc' = "probe_gitea"
            /\ UNCHANGED <<exit_code, exit_reason>>
    /\ UNCHANGED <<gitea_connected, cycle, entered_loop>>
    /\ UNCHANGED startup_vars

ProbeGitea ==
    /\ pc = "probe_gitea"
    /\ IF config.missing = "gitea.url"
       THEN \* KeyError while the arguments of GiteaClient are read
            /\ Raise
            /\ UNCHANGED <<gitea_connected, calls>>
       ELSE /\ \E resp \in ProbeResponses :
                 /\ gitea_connected' = GiteaTestConnection(resp)
                 /\ calls' = Append(calls,
                        [Call("probe_gitea", "", gitea_connected', 0, <<>>, 0)
                            EXCEPT !.status = resp])
            /\ pc' = "check"
            /\ UNCHANGED <<exit_code, exit_reason>>
    /\ UNCHANGED <<kibana_connected, cycle, entered_loop>>
    /\ UNCHANGED startup_vars

ProbesFailedBoth(k, g) == ~k /\ ~g

\* the test of "if not kibana_connected or not gitea_connected"
ProbesFailed(k, g) == ~k \/ ~g

\* exit(1) raises SystemExit, which neither except clause catches
CheckConnections ==
    /\ pc = "check"
    /\ IF ProbesFailed(kibana_connected, gitea_connected)
       THEN /\ pc' = "ended"
            /\ exit_code' = 1
            /\ exit_reason' = "probe"
            /\ UNCHANGED <<cycle, entered_loop>>
       ELSE IF config.missing = "kibana.search_interval"
            THEN \* KeyError before the loop
                 /\ Raise
                 /\ UNCHANGED <<cycle, entered_loop>>
            ELSE /\ pc' = "search"
                 /\ cycle' = 1
                 /\ entered_loop' = TRUE
                 /\ UNCHANGED <<exit_code, exit_reason>>
    /\ UNCHANGED <<kibana_connected, gitea_connected>>
    /\ UNCHANGED <<startup_vars, calls>>

\* time.sleep(search_interval), then the next turn of "while True"
Sleep ==
    /\ pc = "sleep"
    /\ cycle < MaxCycles
    /\ pc' = "search"
    /\ cycle' = cycle + 1
    \* the locals of the call of process_cases that returned are gone
    /\ cases_to_process' = <<>>
    /\ idx' = 0
    /\ issue_url' = 0
    /\ calls' = <<>>
    /\ UNCHANGED <<static_vars, exit_code, exit_reason, kibana_connected,
                   gitea_connected, entered_loop>>
    /\ UNCHANGED <<kibana, issues, comments, retagged, acked,
                   prev_create_failed, cur_create_failed, external>>

\* KeyboardInterrupt: caught, logged, and the script ends
Interrupt ==
    /\ pc # "ended"
    /\ pc' = "ended"
    /\ exit_code' = 0
    /\ exit_reason' = "interrupt"
    /\ UNCHANGED <<kibana_connected, gitea_connected, cycle, entered_loop>>
    /\ UNCHANGED <<startup_vars, calls>>

----------------------------------------------------------------------------
(* process_cases *)

main_vars == <<static_vars, exit_code, exit_reason, kibana_connected, gitea_connected,
               cycle, entered_loop>>

AdvanceReturn ==
    idx' = idx /\ pc' = "sleep"

\* the for loop moves to the next case, or process_cases returns
Advance ==
    IF idx < Len(cases_to_process)
    THEN idx' = idx + 1 /\ pc' = "create"
    ELSE idx' = idx /\ pc' = "sleep"

\* the test of "if success_tag in case.get('tags')"
AlreadyPosted(case) == success_tag \in Range(case.tags)

\* the search and the tests before the for loop
Search ==
    /\ pc = "search"
    /\ IF config.missing = "kibana.search_tag"
       THEN \* KeyError at the first line of process_cases
            /\ Raise
            /\ UNCHANGED <<cases_to_process, calls, idx, prev_create_failed,
                           cur_create_failed>>
       ELSE /\ \E ok \in BOOLEAN :
                 /\ cases_to_process' = GetCasesByTag(search_tag, ok)
                 /\ calls' = <<Call("search", "", ok, 0, <<>>, 0)>>
            /\ IF cases_to_process' = <<>>
               THEN pc' = "sleep" /\ idx' = 0
               ELSE pc' = "create" /\ idx' = 1
            /\ prev_create_failed' = cur_create_failed
            /\ cur_create_failed' = {}
            /\ UNCHANGED <<exit_code, exit_reason>>
    /\ UNCHANGED <<kibana, issue_url, issues, comments, retagged, acked, external>>
    /\ UNCHANGED <<static_vars, kibana_connected, gitea_connected, cycle, entered_loop>>

IssueCreatedAlways(post_ok) == TRUE

\* create_issue: the first element of the pair returned, tested by
\* "if issue_created"
IssueCreated(post_ok) == post_ok

\* one turn of the for loop up to "if issue_created": the skip test only logs,
\* then create_issue lists the labels and posts the issue
CreateIssue ==
    /\ pc = "create"
    /\ LET case == cases_to_process[idx]
           skip_logged == AlreadyPosted(case)
       IN  IF config.missing = "gitea.label_ids"
           THEN \* KeyError while the arguments of create_issue are read
                /\ Raise
                /\ UNCHANGED <<calls, issues, issue_url, idx, cur_create_failed>>
           ELSE IF config.missing = "label_ids.low"
           THEN \* KeyError at priority_labels["low"], after the labels are listed
                /\ \E labels_ok \in BOOLEAN :
                     calls' = Append(calls, Call("labels", case.id, labels_ok, 0, <<>>, 0))
                /\ Raise
                /\ UNCHANGED <<issues, issue_url, idx, cur_create_failed>>
           ELSE
           /\ \E labels_ok \in BOOLEAN, post_ok \in BOOLEAN :
             LET org_labels == GetOrgLabels(labels_ok)
                 label_ids == LabelIds(case, org_labels, priority_labels)
                 url == Len(issues) + 1
             IN  /\ calls' = calls \o
                       << Call("labels", case.id, labels_ok, 0, <<>>, 0),
                          Call("create", case.id, post_ok,
                               IF post_ok THEN url ELSE 0, <<>>, 0) >>
                 /\ issues' = IF post_ok
                               THEN Append(issues,
                                        [case |-> case.id, labels |-> label_ids,
                                         url |-> url, cycle |-> cycle])
                               ELSE issues
                 /\ issue_url' = IF post_ok THEN url ELSE 0
                 /\ IF IssueCreated(post_ok)
                    THEN /\ pc' = "update"
                         /\ idx' = idx
                         /\ UNCHANGED cur_create_failed
                    ELSE /\ cur_create_failed' = cur_create_failed \cup {case.id}
                         /\ Advance
           /\ UNCHANGED <<exit_code, exit_reason>>
    /\ UNCHANGED <<kibana, cases_to_process, comments, retagged, acked,
                   prev_create_failed, external>>
    /\ UNCHANGED <<static_vars, kibana_connected, gitea_connected, cycle, entered_loop>>

\* whether the server accepts the PATCH built from a case snapshot: the
\* request gets through and the version it carries is the current one
Accepted(case, net_ok) ==
    net_ok /\ case.version = kibana[case.id].version

\* the PATCH of update_case_tags_and_status and its effect on the server
Patch(case, net_ok) ==
    LET payload == UpdatePayload(case, search_tag, success_tag)
    IN  /\ calls' = Append(calls,
                [Call("update", payload.id, Accepted(case, net_ok), 0,
                      payload.tags, payload.version)
                    EXCEPT !.status = payload.status])
        /\ IF Accepted(case, net_ok)
           THEN /\ kibana' = [kibana EXCEPT ![payload.id] =
                        [@ EXCEPT !.tags = payload.tags,
                                  !.status = payload.status,
                                  !.version = @ + 1]]
                /\ acked' = [acked EXCEPT ![payload.id] = cycle]
           ELSE UNCHANGED <<kibana, acked>>

AfterUpdateAlwaysComment(update_success) == "comment"

\* the branch taken on the result of the first update
AfterUpdate(update_success) == IF update_success THEN "comment" ELSE "retry"

\* the first update of the case after its issue was created
UpdateCase ==
    /\ pc = "update"
    /\ \E net_ok \in BOOLEAN :
         /\ Patch(cases_to_process[idx], net_ok)
         /\ pc' = AfterUpdate(Accepted(cases_to_process[idx], net_ok))
    /\ UNCHANGED <<cases_to_process, idx, issue_url, issues, comments,
                   retagged, prev_create_failed, cur_create_failed, external>>
    /\ UNCHANGED main_vars

\* the else branch: the retry of the update
RetryUpdate ==
    /\ pc = "retry"
    /\ LET fresh_case_data == BoundMethod
       IN  IF Truthy(fresh_case_data)
           THEN IF HasGet(fresh_case_data)
                THEN /\ \E net_ok \in BOOLEAN :
                          /\ Patch(fresh_case_data, net_ok)
                          /\ IF Accepted(fresh_case_data, net_ok)
                             THEN pc' = "comment" /\ idx' = idx
                             ELSE Advance
                     /\ UNCHANGED <<exit_code, exit_reason>>
                ELSE \* case.get("tags") raises AttributeError, which
                     \* update_case_tags_and_status does not catch
                     /\ Raise
                     /\ UNCHANGED <<kibana, acked, calls, idx>>
           ELSE /\ Advance
                /\ UNCHANGED <<kibana, acked, calls, exit_code, exit_reason>>
    /\ UNCHANGED <<cases_to_process, issue_url, issues, comments, retagged,
                   prev_create_failed, cur_create_failed, external>>
    /\ UNCHANGED <<static_vars, kibana_connected, gitea_connected, cycle, entered_loop>>

\* add_comment_to_case after a successful update: its result is not used
AddComment ==
    /\ pc = "comment"
    /\ LET case_id == cases_to_process[idx].id
       IN  \E ok \in BOOLEAN :
             /\ calls' = Append(calls, Call("comment", case_id, ok, issue_url, <<>>, 0))
             /\ comments' = IF ok
                            THEN Append(comments, [case |-> case_id, url |-> issue_url])
                            ELSE comments
    /\ Advance
    /\ UNCHANGED <<kibana, cases_to_process, issue_url, issues, retagged, acked,
                   prev_create_failed, cur_create_failed, external>>
    /\ UNCHANGED main_vars

----------------------------------------------------------------------------
(* Environment: analysts working on the cases in Kibana *)

HasSearchTag(tags) == \E i \in 1..Len(tags) : Lower(tags[i]) = Lower(search_tag)

\* an analyst edits a case: the server gives it a new version
ExternalEdit(id) ==
    /\ entered_loop /\ pc # "ended"
    /\ external < MaxExternal
    /\ external' = external + 1
    /\ kibana' = [kibana EXCEPT ![id].version = @ + 1]
    /\ UNCHANGED <<pc, cases_to_process, idx, issue_url, issues, comments, calls,
                   retagged, acked, prev_create_failed, cur_create_failed>>
    /\ UNCHANGED main_vars

\* an analyst tags a case for escalation (again)
ExternalTag(id) ==
    /\ entered_loop /\ pc # "ended"
    /\ external < MaxExternal
    /\ ~HasSearchTag(kibana[id].tags)
    /\ external' = external + 1
    /\ \E t \in {"security", "sECURITY"} :
         kibana' = [kibana EXCEPT ![id].tags = Append(@, t),
                                  ![id].version = @ + 1]
    /\ retagged' = IF acked[id] # 0 THEN retagged \cup {id} ELSE retagged
    /\ UNCHANGED <<pc, cases_to_process, idx, issue_url, issues, comments, calls,
                   acked, prev_create_failed, cur_create_failed>>
    /\ UNCHANGED main_vars

----------------------------------------------------------------------------
(* Specification *)

Next ==
    \/ LoadConfig
    \/ ProbeKibana
    \/ ProbeGitea
    \/ CheckConnections
    \/ Search
    \/ CreateIssue
    \/ UpdateCase
    \/ RetryUpdate
    \/ AddComment
    \/ Sleep
    \/ Interrupt
    \/ \E id \in CaseIds : ExternalEdit(id)
    \/ \E id \in CaseIds : ExternalTag(id)

Spec == Init /\ [][Next]_vars

TypeOK ==
    /\ pc \in PcValues
    /\ \A id \in CaseIds : Range(kibana[id].tags) \subseteq Tags
    /\ exit_code \in {-1, 0, 1}
    /\ idx \in 0..Len(cases_to_process)
    /\ cycle \in 0..MaxCycles

----------------------------------------------------------------------------
(* The script started with a configuration that may lack a required key *)

ConfigsMissing ==
    {[c EXCEPT !.missing = m] : c \in Configs, m \in MissingKeys \cup {"none"}}

InitConfig ==
    /\ config \in ConfigsMissing
    /\ InitState

SpecConfig == InitConfig /\ [][Next]_vars

----------------------------------------------------------------------------
(* update_case_tags_and_status on drawn inputs: the script stands right      *)
(* before the first update of a case the search returned, for every tag     *)
(* list up to MaxTags and every pair of configured tags                     *)

UpdateTagPool == {"Security", "security", "forwarded", "Forwarded", "network"}

RECURSIVE SeqsUpTo(_, _)
SeqsUpTo(S, n) ==
    IF n = 0 THEN {<<>>}
    ELSE LET shorter == SeqsUpTo(S, n - 1)
         IN  shorter \cup {Append(q, x) : q \in shorter, x \in S}

UpdateConfigs ==
    [search_tag : {"Security", "security"},
     success_tag : {"forwarded", "Forwarded", "security", "Security"},
     label_ids : {[low |-> 10, critical |-> 2]},
     missing : {"none"}]

InitUpdate ==
    /\ config \in UpdateConfigs
    /\ gitea_labels = OrgLabels
    /\ \E tags \in SeqsUpTo(UpdateTagPool, MaxTags) :
         /\ Range(tags) \cap QueryTags(config.search_tag) # {}
         /\ kibana = [id \in CaseIds |->
                IF id = "c1"
                THEN [tags |-> tags, severity |-> "low", version |-> 1,
                      status |-> "open"]
                ELSE [tags |-> <<"network">>, severity |-> "low", version |-> 1,
                      status |-> "open"]]
    /\ pc = "update"
    /\ exit_code = -1
    /\ exit_reason = ""
    /\ kibana_connected = TRUE
    /\ gitea_connected = TRUE
    /\ cases_to_process = <<Snapshot("c1")>>
    /\ idx = 1
    /\ issue_url = 1
    /\ issues = <<[case |-> "c1",
                   labels |-> LabelIds(Snapshot("c1"), OrgLabels, priority_labels),
                   url |-> 1, cycle |-> 1]>>
    /\ comments = <<>>
    /\ calls = << Call("search", "", TRUE, 0, <<>>, 0),
                  Call("labels", "c1", TRUE, 0, <<>>, 0),
                  Call("create", "c1", TRUE, 1, <<>>, 0) >>
    /\ cycle = 1
    /\ entered_loop = TRUE
    /\ retagged = {}
    /\ acked = [id \in CaseIds |-> 0]
    /\ prev_create_failed = {}
    /\ cur_create_failed = {}
    /\ external = 0

NextUpdate == UpdateCase

SpecUpdate == InitUpdate /\ [][NextUpdate]_vars

----------------------------------------------------------------------------
(* create_issue on drawn inputs: the script stands right before the        *)
(* create_issue call of a case the search returned, for drawn tag lists,   *)
(* severities, organisation label lists and severity tables                *)

MaxLabels == 3     \* length of the organisation label lists drawn

LabelPool == {[id |-> 1, name |-> "network"], [id |-> 2, name |-> "critical"],
              [id |-> 3, name |-> "Network"]}

LabelTagPool == {"network", "NETWORK", "critical", "unmatched"}

Severities == {"low", "critical", "high", NoSeverity}

\* the lists of labels with distinct ids
LabelLists ==
    {l \in SeqsUpTo(LabelPool, MaxLabels) :
        \A i, j \in 1..Len(l) : l[i].id = l[j].id => i = j}

LabelConfigs ==
    {[c EXCEPT !.label_ids = t] :
        c \in Configs, t \in {[low |-> 10, critical |-> 2], [low |-> 10]}}

InitLabels ==
    /\ config \in LabelConfigs
    /\ gitea_labels \in LabelLists
    /\ \E extra \in SeqsUpTo(LabelTagPool, MaxTags - 1), sev \in Severities :
         kibana = [id \in CaseIds |->
            IF id = "c1"
            THEN [tags |-> <<config.search_tag>> \o extra, severity |-> sev,
                  version |-> 1, status |-> "open"]
            ELSE [tags |-> <<"network">>, severity |-> "low", version |-> 1,
                  status |-> "open"]]
    /\ pc = "create"
    /\ exit_code = -1
    /\ exit_reason = ""
    /\ kibana_connected = TRUE
    /\ gitea_connected = TRUE
    /\ cases_to_process = <<Snapshot("c1")>>
    /\ idx = 1
    /\ issue_url = 0
    /\ issues = <<>>
    /\ comments = <<>>
    /\ calls = <<Call("search", "", TRUE, 0, <<>>, 0)>>
    /\ cycle = 1
    /\ entered_loop = TRUE
    /\ retagged = {}
    /\ acked = [id \in CaseIds |-> 0]
    /\ prev_create_failed = {}
    /\ cur_create_failed = {}
    /\ external = 0

NextLabels == CreateIssue

SpecLabels == InitLabels /\ [][NextLabels]_vars

----------------------------------------------------------------------------
(* get_cases_by_tag on drawn inputs: the script stands right before the    *)
(* search of its first cycle, for every casing of the search tag and drawn *)
(* tag lists of the cases on the server                                    *)

SearchTagPool == {"security", "Security", "SECURITY", "sECURITY", "network"}

SearchConfigs ==
    {[c EXCEPT !.search_tag = t] :
        c \in Configs, t \in {"security", "Security", "SECURITY", "sECURITY"}}

InitSearch ==
    /\ config \in SearchConfigs
    /\ gitea_labels = OrgLabels
    /\ \E t1 \in SeqsUpTo(SearchTagPool, MaxTags),
          t2 \in {<<"SECURITY">>, <<"network">>, <<"network", "sECURITY">>} :
         kibana = [id \in CaseIds |->
            [tags |-> IF id = "c1" THEN t1 ELSE t2, severity |-> "low",
             version |-> 1, status |-> "open"]]
    /\ pc = "search"
    /\ exit_code = -1
    /\ exit_reason = ""
    /\ kibana_connected = TRUE
    /\ gitea_connected = TRUE
    /\ cases_to_process = <<>>
    /\ idx = 0
    /\ issue_url = 0
    /\ issues = <<>>
    /\ comments = <<>>
    /\ calls = <<>>
    /\ cycle = 1
    /\ entered_loop = TRUE
    /\ retagged = {}
    /\ acked = [id \in CaseIds |-> 0]
    /\ prev_create_failed = {}
    /\ cur_create_failed = {}
    /\ external = 0

NextSearch == Search

SpecSearch == InitSearch /\ [][NextSearch]_vars

----------------------------------------------------------------------------
(* Properties *)

Ids(list) == {list[i].id : i \in 1..Len(list)}

\* the positions in calls of the calls of one kind made for one case
CallIdx(op, id) == {k \in 1..Len(calls) : calls[k].op = op /\ calls[k].case = id}

Min(S) == CHOOSE x \in S : \A y \in S : x <= y

\* process_cases has returned, or an exception has ended it
CycleOver ==
    \/ pc = "sleep"
    \/ pc = "ended" /\ exit_reason = "exception" /\ entered_loop

\* the for loop is done with the case: it was started and the loop has left
\* it, by moving on or by an exception
ProcessingEnded(id) ==
    /\ CallIdx("create", id) # {}
    /\ exit_reason # "interrupt"
    /\ ~(pc \in {"update", "retry", "comment"} /\ cases_to_process[idx].id = id)

\* the first update sent for the case in this cycle has failed
FirstUpdateFailed(id) ==
    /\ CallIdx("update", id) # {}
    /\ ~calls[Min(CallIdx("update", id))].ok

\* C1: a case of the search result whose tag list contains the success tag
\* is skipped: no create_issue, update or comment call is made for it in the
\* cycle.
C1_AlreadyPostedSkipped ==
    \A i \in 1..Len(cases_to_process) :
        success_tag \in Range(cases_to_process[i].tags) =>
            \A k \in 1..Len(calls) :
                calls[k].case = cases_to_process[i].id =>
                    calls[k].op \notin {"create", "update", "comment"}

\* C2: when the first update of a case has failed, the case is fetched again
\* by its id and exactly one further update is sent for it before the loop
\* leaves the case.
C2_RefetchAndRetryOnce ==
    \A id \in CaseIds :
        (FirstUpdateFailed(id) /\ ProcessingEnded(id)) =>
            /\ Cardinality(CallIdx("update", id)) = 2
            /\ \E g \in CallIdx("get", id) :
                 /\ g > Min(CallIdx("update", id))
                 /\ \A u \in CallIdx("update", id) \ {Min(CallIdx("update", id))} : u > g

\* C3: once the poll loop is entered the process ends only by a termination
\* signal, whatever the remote calls return.
C3_LoopLeftOnlyBySignal ==
    (entered_loop /\ pc = "ended") => exit_reason = "interrupt"

\* what C4 says of one update call and the snapshot it was built from
UpdateCarriesTags(u, snapshot) ==
    LET n_in == Cardinality({i \in 1..Len(snapshot.tags) :
                    /\ Lower(snapshot.tags[i]) = Lower(success_tag)
                    /\ Lower(snapshot.tags[i]) # Lower(search_tag)})
        n_out == Cardinality({i \in 1..Len(u.tags) :
                    Lower(u.tags[i]) = Lower(success_tag)})
    IN  /\ \A i \in 1..Len(u.tags) : Lower(u.tags[i]) # Lower(search_tag)
        /\ \E i \in 1..Len(u.tags) : Lower(u.tags[i]) = Lower(success_tag)
        /\ n_out = IF n_in = 0 THEN 1 ELSE n_in
        /\ (u.ok /\ acked[u.case] = cycle /\ external = 0) =>
               /\ kibana[u.case].tags = u.tags
               /\ ~HasSearchTag(kibana[u.case].tags)
               /\ \E i \in 1..Len(kibana[u.case].tags) :
                    Lower(kibana[u.case].tags[i]) = Lower(success_tag)

UpdateCallsCarryTags ==
    \A k \in 1..Len(calls) :
        calls[k].op = "update" =>
            \E i \in 1..Len(cases_to_process) :
                /\ cases_to_process[i].id = calls[k].case
                /\ UpdateCarriesTags(calls[k], cases_to_process[i])

\* C4 as stated: every update request carries a tag list in which no tag
\* equals the search tag ignoring case and at least one equals the new tag
\* ignoring case, the new tag appended only when no remaining tag equals it;
\* after a successful write-back the case carries the success tag and not the
\* search tag.
C4_UpdateReplacesSearchTag == UpdateCallsCarryTags

\* C4 amended: the same, for a new tag that differs from the search tag
\* ignoring case.
C4_UpdateReplacesSearchTagDistinct ==
    Lower(search_tag) # Lower(success_tag) => UpdateCallsCarryTags

C4_Witness ==
    /\ Lower(search_tag) # Lower(success_tag)
    /\ success_tag = "forwarded"
    /\ cases_to_process[1].tags = <<"security", "Forwarded", "Security">>
    /\ \E k \in 1..Len(calls) :
         calls[k].op = "update" /\ calls[k].ok /\ calls[k].tags = <<"Forwarded">>

C6_CreateFailureRetriedNextCycle ==
    /\ \A id \in cur_create_failed :
         /\ CallIdx("update", id) = {}
         /\ CallIdx("comment", id) = {}
         /\ HasSearchTag(kibana[id].tags)
    /\ (CycleOver /\ calls[1].op = "search" /\ calls[1].ok) =>
         \A id \in prev_create_failed :
             /\ id \in Ids(cases_to_process)
             /\ CallIdx("create", id) # {}

\* C7: a case whose issue was created and whose write-back failed for good
\* still carries the search tag, and the loop goes on to the next cycle, which
\* finds the case again and creates another issue for it.
C7_FailedWritebackReissued ==
    \A id \in CaseIds :
        (FirstUpdateFailed(id) /\ acked[id] # cycle /\ ProcessingEnded(id)) =>
            /\ HasSearchTag(kibana[id].tags)
            /\ pc # "ended"

\* C8: when a cycle is over, every case the search returned has been
\* processed, whatever failed for the cases before it.
C8_EveryCaseProcessed ==
    CycleOver => \A id \in Ids(cases_to_process) : CallIdx("create", id) # {}

\* C9: a comment call comes after a successful update of the same case and
\* after the successful create_issue of that case whose url it carries; there
\* is one comment call per case and, whatever its result, the next call is
\* the label listing of another case or the cycle ends normally.
C9_CommentAfterAck ==
    \A k \in 1..Len(calls) :
        calls[k].op = "comment" =>
            /\ \E j \in 1..(k - 1) :
                 calls[j].op = "update" /\ calls[j].case = calls[k].case /\ calls[j].ok
            /\ \E m \in 1..(k - 1) :
                 /\ calls[m].op = "create" /\ calls[m].case = calls[k].case
                 /\ calls[m].ok /\ calls[m].url = calls[k].url
            /\ Cardinality(CallIdx("comment", calls[k].case)) = 1
            /\ k < Len(calls) =>
                 calls[k + 1].op = "labels" /\ calls[k + 1].case # calls[k].case
            /\ k = Len(calls) =>
                 /\ pc \in {"create", "sleep", "ended"}
                 /\ pc = "ended" => exit_reason = "interrupt"

C9_Witness ==
    \E k \in 1..Len(calls) :
        /\ calls[k].op = "comment" /\ ~calls[k].ok
        /\ k < Len(calls)
        /\ calls[Len(calls)].op = "comment" /\ calls[Len(calls)].ok

\* C10: the loop is entered only when both probes succeeded; when a probe
\* failed the process exits with status 1 after one probe of each adapter
\* and no other remote call.
C10_ProbeFailureExits ==
    /\ entered_loop => (kibana_connected /\ gitea_connected)
    /\ (pc \notin {"load", "probe_kibana", "probe_gitea", "check"}
            /\ ~(kibana_connected /\ gitea_connected)
            /\ exit_reason \notin {"interrupt", "exception"}) =>
         /\ pc = "ended" /\ exit_reason = "probe" /\ exit_code = 1
         /\ cycle = 0
         /\ issues = <<>> /\ comments = <<>>
         /\ Len(calls) = 2
         /\ calls[1].op = "probe_kibana" /\ calls[2].op = "probe_gitea"

C10_Witness ==
    /\ pc = "ended" /\ exit_reason = "probe"
    /\ kibana_connected /\ ~gitea_connected

\* C11: a run whose configuration lacks a required key (or whose file cannot
\* be read) ends with a non-zero exit status, and no issue was created and no
\* case modified before it ended.
C11_ConfigErrorFatal ==
    (config.missing # "none" /\ pc = "ended" /\ exit_reason = "exception") =>
        /\ exit_code \notin {-1, 0}
        /\ issues = <<>>
        /\ comments = <<>>
        /\ \A id \in CaseIds : acked[id] = 0
        /\ \A k \in 1..Len(calls) : calls[k].op \notin {"create", "update", "comment"}

\* the id the severity table gives for the severity of a case
SeverityId(case) ==
    IF case.severity # NoSeverity /\ Lower(case.severity) \in DOMAIN priority_labels
    THEN priority_labels[Lower(case.severity)]
    ELSE priority_labels["low"]

\* the case tags in lowercase
LowerTags(case) == {Lower(case.tags[i]) : i \in 1..Len(case.tags)}

\* the created issue of the case the for loop is at, when the label listing
\* before it succeeded
IssueWithListedLabels ==
    /\ Len(issues) = 1
    /\ \E k \in 1..Len(calls) : calls[k].op = "labels" /\ calls[k].ok

\* C12 as stated: the label ids sent with the issue are the ids of all labels
\* whose lowercase name equals the lowercase of some case tag, together with
\* the severity id (the "low" id when the severity is absent from the case or
\* the table).
C12_LabelIdsAllMatching ==
    IssueWithListedLabels =>
        issues[1].labels =
            {gitea_labels[i].id :
                i \in {j \in 1..Len(gitea_labels) :
                          Lower(gitea_labels[j].name) \in LowerTags(cases_to_process[1])}}
            \cup {SeverityId(cases_to_process[1])}

\* C12 amended: of the labels sharing a lowercase name only the last one in
\* the organisation's list counts; the label ids sent are the ids of these
\* for the names that equal the lowercase of some case tag, together with the
\* severity id (the "low" id when the severity is absent from the case or the
\* table).
C12_LabelIdsLastMatching ==
    IssueWithListedLabels =>
        issues[1].labels =
            {gitea_labels[i].id :
                i \in {j \in 1..Len(gitea_labels) :
                          /\ Lower(gitea_labels[j].name) \in LowerTags(cases_to_process[1])
                          /\ \A m \in (j + 1)..Len(gitea_labels) :
                               Lower(gitea_labels[m].name) # Lower(gitea_labels[j].name)}}
            \cup {SeverityId(cases_to_process[1])}

C12_Witness ==
    /\ IssueWithListedLabels
    /\ gitea_labels = <<[id |-> 1, name |-> "network"], [id |-> 2, name |-> "critical"]>>
    /\ priority_labels = [low |-> 10, critical |-> 2]
    /\ cases_to_process[1].tags = <<"Security", "network", "unmatched">>
    /\ cases_to_process[1].severity = "critical"
    /\ issues[1].labels = {1, 2}

\* C13: when the search of a cycle failed, the list returned is empty, no
\* other remote call is made in the cycle, and the script is at the sleep of
\* the poll loop (which only a termination signal ends).
C13_SearchFailureEndsCycle ==
    (calls # <<>> /\ calls[1].op = "search" /\ ~calls[1].ok) =>
        /\ cases_to_process = <<>>
        /\ Len(calls) = 1
        /\ pc \in {"sleep", "ended"}
        /\ pc = "ended" => exit_reason = "interrupt"
        /\ (pc = "sleep" /\ cycle < MaxCycles) => ENABLED Sleep

C13_Witness ==
    /\ calls # <<>> /\ calls[1].op = "search" /\ ~calls[1].ok
    /\ pc = "sleep"
    /\ cycle = 2
    /\ \E id \in CaseIds : HasSearchTag(kibana[id].tags)

\* C14: a failed label listing is followed by the issue-creation request of
\* the same case; an issue so created carries the severity label id only, and
\* the next call is the update of the case.
C14_LabelListingFailureTolerated ==
    \A k \in 1..Len(calls) :
        (calls[k].op = "labels" /\ ~calls[k].ok) =>
            /\ k < Len(calls)
            /\ calls[k + 1].op = "create"
            /\ calls[k + 1].case = calls[k].case
            /\ calls[k + 1].ok =>
                 /\ \E i \in 1..Len(issues), c \in 1..Len(cases_to_process) :
                      /\ issues[i].url = calls[k + 1].url
                      /\ issues[i].case = calls[k].case
                      /\ cases_to_process[c].id = calls[k].case
                      /\ issues[i].labels = {SeverityId(cases_to_process[c])}
                 /\ k + 1 < Len(calls) =>
                      calls[k + 2].op = "update" /\ calls[k + 2].case = calls[k].case
                 /\ k + 1 = Len(calls) =>
                      \/ pc = "update" /\ cases_to_process[idx].id = calls[k].case
                      \/ pc = "ended" /\ exit_reason = "interrupt"

C14_Witness ==
    \E k \in 1..Len(calls) :
        /\ calls[k].op = "labels" /\ ~calls[k].ok
        /\ k + 2 <= Len(calls)
        /\ calls[k + 1].ok
        /\ calls[k + 2].op = "update"
        /\ \E c \in 1..Len(cases_to_process) :
             /\ cases_to_process[c].id = calls[k].case
             /\ cases_to_process[c].tags = <<"security", "network">>
        /\ issues[Len(issues)].labels = {10}

\* the position in the search result of the case with this id
Pos(id) == CHOOSE i \in 1..Len(cases_to_process) : cases_to_process[i].id = id

\* C15: the first update request of a case comes after its issue was created
\* and carries the id of the case, the version of the snapshot the search of
\* this cycle returned and status "in-progress"; for a snapshot whose tags
\* are the search tag alone its tag list is the success tag alone.
C15_FirstUpdateFromSnapshot ==
    \A id \in CaseIds :
        CallIdx("update", id) # {} =>
            LET k == Min(CallIdx("update", id))
                snapshot == cases_to_process[Pos(id)]
            IN  /\ id \in Ids(cases_to_process)
                /\ \E m \in CallIdx("create", id) : m < k /\ calls[m].ok
                /\ calls[k].case = snapshot.id
                /\ calls[k].version = snapshot.version
                /\ calls[k].status = "in-progress"
                /\ snapshot.tags = <<search_tag>> => calls[k].tags = <<success_tag>>

C15_Witness ==
    \E id \in CaseIds :
        /\ CallIdx("update", id) # {}
        /\ cases_to_process[Pos(id)].tags = <<search_tag>>
        /\ calls[Min(CallIdx("update", id))].tags = <<success_tag>>
        /\ calls[Min(CallIdx("update", id))].version = 1
        /\ ~calls[Min(CallIdx("update", id))].ok
        /\ kibana[id].version = 2
        /\ acked[id] = 0

\* C16: a successful search returns every case that carries the search tag
\* as configured, in lowercase, in titlecase or in uppercase; the search for
\* "Security" returns the cases tagged security, Security or SECURITY.
C16_AllCasingsFound ==
    (calls # <<>> /\ calls[1].op = "search" /\ calls[1].ok) =>
        /\ \A id \in CaseIds :
             (Range(kibana[id].tags) \cap
                {search_tag, Lower(search_tag), Title(search_tag), Upper(search_tag)} # {})
                => \E i \in 1..Len(cases_to_process) :
                       cases_to_process[i] = Snapshot(id)
        /\ search_tag = "Security" =>
             \A id \in CaseIds :
                (Range(kibana[id].tags) \cap {"security", "Security", "SECURITY"} # {})
                    => id \in Ids(cases_to_process)

C16_Witness ==
    /\ calls # <<>> /\ calls[1].op = "search" /\ calls[1].ok
    /\ search_tag = "Security"
    /\ kibana["c1"].tags = <<"network", "SECURITY">>
    /\ kibana["c2"].tags = <<"network", "sECURITY">>
    /\ Ids(cases_to_process) = {"c1"}

\* C17: the Kibana probe reports success exactly for the responses 200 and
\* 404; for every other response it reports failure, and the script goes on
\* to the Gitea probe in either case.
C17_KibanaProbeResult ==
    \A k \in 1..Len(calls) :
        calls[k].op = "probe_kibana" =>
            /\ calls[k].ok <=> calls[k].status \in {"200", "404"}
            /\ kibana_connected = calls[k].ok
            /\ k = Len(calls) =>
                 \/ pc = "probe_gitea"
                 \/ pc = "ended" /\ exit_reason = "interrupt"

C17_Witness ==
    \E k \in 1..Len(calls) :
        /\ calls[k].op = "probe_kibana"
        /\ calls[k].status = "404"
        /\ calls[k].ok
        /\ pc = "search"

\* the loop is done with the case: its issue could not be created, or its
\* comment call was made
TerminalOutcome(id) ==
    \/ \E k \in CallIdx("create", id) : ~calls[k].ok
    \/ CallIdx("comment", id) # {}

\* C18: the calls of a cycle are made case by case in the order of the search
\* result, for each case in the order label listing, create, update, comment;
\* and the script is at the sleep only when every case of the search result
\* has reached its terminal outcome.
C18_SequentialProcessing ==
    (calls # <<>> /\ calls[1].op = "search") =>
        /\ Len(calls) > 1 => calls[2].op = "labels" /\ Pos(calls[2].case) = 1
        /\ \A k \in 2..(Len(calls) - 1) :
             IF calls[k].case = calls[k + 1].case
             THEN <<calls[k].op, calls[k + 1].op>> \in
                     { <<"labels", "create">>, <<"create", "update">>,
                       <<"update", "comment">> }
             ELSE /\ Pos(calls[k + 1].case) = Pos(calls[k].case) + 1
                  /\ calls[k + 1].op = "labels"
                  /\ TerminalOutcome(calls[k].case)
        /\ \A k \in 2..Len(calls) : Pos(calls[k].case) <= idx
        /\ pc = "sleep" => \A id \in Ids(cases_to_process) : TerminalOutcome(id)

C18_Witness ==
    /\ pc = "sleep"
    /\ Len(cases_to_process) = 2
    /\ Len(calls) = 7
    /\ calls[5].op = "comment" /\ calls[5].case = "c1"
    /\ calls[6].op = "labels" /\ calls[6].case = "c2"
    /\ calls[7].op = "create" /\ ~calls[7].ok

\* C19: the tag list an update request carries is the tag list of the
\* snapshot without the tags that equal the search tag ignoring case, in the
\* original order, with or without the success tag appended; the snapshot is
\* left as it was.
C19_UpdateKeepsOtherTags ==
    [][ \A k \in 1..Len(calls') :
            (k > Len(calls) /\ calls'[k].op = "update") =>
                LET case == cases_to_process[idx]
                    kept == SelectSeq(case.tags,
                                LAMBDA t : Lower(t) # Lower(search_tag))
                IN  /\ calls'[k].tags \in {kept, Append(kept, success_tag)}
                    /\ cases_to_process' = cases_to_process ]_vars

C19_Witness ==
    /\ success_tag = "forwarded"
    /\ search_tag = "Security"
    /\ cases_to_process[1].tags = <<"network", "security", "Forwarded">>
    /\ Len(calls) = 4
    /\ calls[4].op = "update"
    /\ calls[4].tags = <<"network", "Forwarded">>

\* C20: in a cycle at most one create call and at most one comment call are
\* made for each case of the search result, and every update call of a case
\* comes after a successful create call of that case.
C20_AtMostOnePerCase ==
    (calls # <<>> /\ calls[1].op = "search") =>
        /\ \A i, j \in 1..Len(cases_to_process) :
             cases_to_process[i].id = cases_to_process[j].id => i = j
        /\ \A id \in CaseIds :
             /\ Cardinality(CallIdx("create", id)) <= 1
             /\ Cardinality(CallIdx("comment", id)) <= 1
             /\ \A u \in CallIdx("update", id) :
                  \E m \in CallIdx("create", id) : m < u /\ calls[m].ok

C20_Witness ==
    /\ calls # <<>> /\ calls[1].op = "search"
    /\ \E k \in CallIdx("create", "c1") : ~calls[k].ok
    /\ CallIdx("update", "c1") = {}
    /\ CallIdx("update", "c2") # {}
    /\ CallIdx("comment", "c2") # {}

====
